---- MODULE Spec2Model ----
(***************************************************************************)
(* A model of the captcha solver of BHCLI-Tor, src/lechatphp/captcha.rs:   *)
(* solve_b64 with its process-wide cache, initialization flag and          *)
(* persisted cache file, and the pixel pipeline behind it (rotation        *)
(* search, column segmentation, merge, template recognition, validation).  *)
(*                                                                         *)
(* Eight specifications share the module:                                  *)
(*   Spec        one call of solve_b64 after another, the cache, the       *)
(*               cache file, process crash and restart;                    *)
(*   SpecConc    threads calling solve_b64 at once, the two mutexes;       *)
(*   SpecDetect  detect_captcha_text, statement by statement, on a bounded *)
(*               family of bilevel images;                                 *)
(*   SpecMerge   the merge loop of detect_captcha_text on lists of raw     *)
(*               boundaries;                                               *)
(*   SpecPre     the rotation search of preprocess_specific_captcha on     *)
(*               small gray images;                                        *)
(*   SpecNoise   remove_noise on small gray images;                        *)
(*   SpecIO      one call after another where every write can fail, over   *)
(*               the states of the template directory;                     *)
(*   SpecLogin   login of src/lechatphp/mod.rs, statement by statement,    *)
(*               over the answers of the server.                           *)
(* A GrayImage is [width, height, bands]: bands is a run-length encoding   *)
(* of its columns, each band w columns wide whose pixels are 0 in the rows *)
(* of the band's set and 255 elsewhere (the processed image is bilevel:    *)
(* it leaves adaptive_threshold, remove_noise, erode and dilate).          *)
(***************************************************************************)
EXTENDS Integers, Sequences, FiniteSets, TLC


(***************************************************************************)
(* Characters are one-character strings, a text is a sequence of them.     *)
(***************************************************************************)
\* load_templates: the characters of the synthesized fallback set, in order
FallbackChars ==
  << "0","1","2","3","4","5","6","7","8","9",
     "A","B","C","D","E","F","G","H","I","J","K","L","M",
     "N","O","P","Q","R","S","T","U","V","W","X","Y","Z",
     "a","b","c","d","e","f","g","h","i","j","k","l","m",
     "n","o","p","q","r","s","t","u","v","w","x","y","z" >>

\* char::is_ascii_alphanumeric
IsAsciiAlphanumeric(c) == \E i \in DOMAIN FallbackChars : FallbackChars[i] = c

\* The canonical working resolution of preprocess_specific_captcha
CanonW == 120
CanonH == 80
\* detect_captcha_text: a column is in a character when its projection exceeds this
ProjThreshold == 3
\* detect_captcha_text: minimal width of a raw boundary
MinCharWidth == 3
\* detect_captcha_text: min_gap
MinGap == 3
\* detect_captcha_text: the plausible boundary counts
MinChars == 3
MaxChars == 8
\* compare_images: the comparison size
CmpW == 20
CmpH == 30
\* solve_b64: the cache is flushed when its size is a multiple of this
FlushEvery == 5

(***************************************************************************)
(* GrayImage                                                               *)
(***************************************************************************)
RECURSIVE ExpandRange(_, _, _)
\* The columns of bands lo..hi, built by halves
ExpandRange(bands, lo, hi) ==
  IF lo > hi THEN << >>
  ELSE IF lo = hi THEN [i \in 1..bands[lo].w |-> bands[lo].rows]
  ELSE ExpandRange(bands, lo, (lo + hi) \div 2)
         \o ExpandRange(bands, (lo + hi) \div 2 + 1, hi)

\* The rows-of-dark-pixels set of every column, left to right
ExpandBands(bands) == ExpandRange(bands, 1, Len(bands))

RECURSIVE BandsWidth(_)
BandsWidth(bands) ==
  IF bands = << >> THEN 0 ELSE bands[1].w + BandsWidth(Tail(bands))

MkImage(bands, height) ==
  [width |-> BandsWidth(bands), height |-> height, bands |-> bands]

\* GrayImage::get_pixel(x, y).0[0] on the expanded columns
Px(cols, x, y) == IF y \in cols[x + 1] THEN 0 ELSE 255

\* GrayImage::new(w, h): every pixel 0
BlankImage(w, h) == [width |-> w, height |-> h, bands |-> << [w |-> w, rows |-> 0..(h - 1)] >>]

\* imageops::crop_imm(img, start, 0, char_width, img.height()).to_image()
CropCols(img, start, char_width) ==
  LET cols == ExpandBands(img.bands)
  IN  [width |-> char_width, height |-> img.height,
       bands |-> [i \in 1..char_width |-> [w |-> 1, rows |-> cols[start + i]]]]

(***************************************************************************)
(* Option values: Option<String>, Option<char>                             *)
(***************************************************************************)
NoneOpt == [some |-> FALSE]
Some(v) == [some |-> TRUE, val |-> v]

(***************************************************************************)
(* detect_captcha_text: vertical projection and boundary scan              *)
(***************************************************************************)
\* v_projection[x]: the number of pixels < 128 in column x
ProjectCols(cols, width, height) ==
  [x \in 0..(width - 1) |-> Cardinality({y \in 0..(height - 1) : Px(cols, x, y) < 128})]

VProjection(img) == ProjectCols(ExpandBands(img.bands), img.width, img.height)

\* The test that opens a character run
InChar(p) == p > ProjThreshold

\* The width test of a closed run
WideEnough(start, x) == x - start >= MinCharWidth

\* One iteration of the loop `for x in 0..width` on its state
\* st = [in_char, start, char_boundaries]
ScanStep(proj, width, st, x) ==
  IF InChar(proj[x]) /\ ~st.in_char
  THEN [in_char |-> TRUE, start |-> x, char_boundaries |-> st.char_boundaries]
  ELSE IF (~InChar(proj[x]) \/ x = width - 1) /\ st.in_char
  THEN [in_char |-> FALSE, start |-> st.start,
        char_boundaries |-> IF WideEnough(st.start, x)
                            THEN Append(st.char_boundaries, <<st.start, x>>)
                            ELSE st.char_boundaries]
  ELSE st

RECURSIVE ScanRange(_, _, _, _, _)
\* The iterations lo..hi in order, run by halves (the test on `left` makes TLC
\* finish the left half before it starts the right one)
ScanRange(proj, width, st, lo, hi) ==
  IF lo > hi THEN st
  ELSE IF lo = hi THEN ScanStep(proj, width, st, lo)
  ELSE LET mid == (lo + hi) \div 2
           left == ScanRange(proj, width, st, lo, mid)
       IN  IF left.in_char \in BOOLEAN
           THEN ScanRange(proj, width, left, mid + 1, hi)
           ELSE st

\* char_boundaries after the loop (the projection is bound as a value, so
\* that it is computed once)
ScanBoundaries(proj, width) ==
  CHOOSE r \in {ScanRange(p, width,
                          [in_char |-> FALSE, start |-> 0, char_boundaries |-> << >>],
                          0, width - 1).char_boundaries : p \in {proj}} : TRUE

\* The count check on char_boundaries, which comes before the merge
CountOk(char_boundaries) ==
  ~(Len(char_boundaries) < MinChars \/ Len(char_boundaries) > MaxChars)

\* A test that leaves a gap of exactly MinGap columns unmerged
CloseEnoughStrict(start, current_end) == start - current_end < MinGap

\* The test that joins a raw boundary to the current merged one
CloseEnough(start, current_end) == start - current_end <= MinGap

RECURSIVE MergeFrom(_, _, _, _, _)
\* The merge loop `for (i, &(start, end)) in char_boundaries.iter().enumerate()`
\* with its state; returns (merged_boundaries, current_start, current_end)
MergeFrom(bs, i, current_start, current_end, acc) ==
  IF i > Len(bs) THEN [merged |-> acc, cs |-> current_start, ce |-> current_end]
  ELSE IF i = 1
       THEN MergeFrom(bs, i + 1, bs[i][1], bs[i][2], acc)
  ELSE IF CloseEnough(bs[i][1], current_end)
       THEN MergeFrom(bs, i + 1, current_start, bs[i][2], acc)
  ELSE MergeFrom(bs, i + 1, bs[i][1], bs[i][2],
                 Append(acc, <<current_start, current_end>>))

\* merged_boundaries after the loop and the push of the open boundary
MergeBoundaries(bs) ==
  LET r == MergeFrom(bs, 1, 0, 0, << >>)
  IN  IF bs # << >> THEN Append(r.merged, <<r.cs, r.ce>>) ELSE r.merged

(***************************************************************************)
(* Character recognition                                                   *)
(***************************************************************************)
Abs(n) == IF n < 0 THEN -n ELSE n

RECURSIVE SumRange(_, _, _)
\* f[lo] + ... + f[hi], summed by halves
SumRange(f, lo, hi) ==
  IF lo > hi THEN 0
  ELSE IF lo = hi THEN f[lo]
  ELSE SumRange(f, lo, (lo + hi) \div 2) + SumRange(f, (lo + hi) \div 2 + 1, hi)

\* f[0] + ... + f[n - 1]
SumTo(f, n) == SumRange(f, 0, n - 1)

\* imageops::resize(img, w, h, FilterType::Nearest): output pixel (x, y) is the
\* source pixel under its centre, floor((x + 0.5) * width / w); pixel k = y * w + x
SampleCols(cols, width, height, w, h) ==
  [k \in 0..(w * h - 1) |->
     Px(cols, ((2 * (k % w) + 1) * width) \div (2 * w),
              ((2 * (k \div w) + 1) * height) \div (2 * h))]

ResizeNearest(img, w, h) == SampleCols(ExpandBands(img.bands), img.width, img.height, w, h)

\* compare_images: diff_sum in units of 1/255, so the score is CompareImages / (255 * 600)
DiffSum(img1_resized, img2_resized) ==
  SumTo([k \in 0..(CmpW * CmpH - 1) |-> Abs(img1_resized[k] - img2_resized[k])],
        CmpW * CmpH)

CompareImages(img1, img2) ==
  DiffSum(ResizeNearest(img1, CmpW, CmpH), ResizeNearest(img2, CmpW, CmpH))

\* f32::MAX, in the units of CompareImages
ScoreMax == 255 * CmpW * CmpH + 1

\* best_match.1 < 0.4, in the units of CompareImages
Accepted(score) == 10 * score < 4 * 255 * CmpW * CmpH

\* The ordered rules of estimate_character_by_position on its five counts; the
\* f32 ratio tests are cross-multiplied
EstimateRules(top_count, middle_count, bottom_count, left_count, right_count) ==
  LET total == top_count + middle_count + bottom_count
  IN  IF total = 0 THEN NoneOpt
      ELSE IF 5 * top_count > 2 * total /\ 5 * bottom_count > 2 * total
              /\ 5 * middle_count < total THEN Some("8")
      ELSE IF 5 * top_count > 2 * total /\ 10 * middle_count > 3 * total THEN Some("E")
      ELSE IF 10 * left_count > 7 * (left_count + right_count) THEN Some("C")
      ELSE IF 5 * top_count < total /\ 2 * bottom_count > total THEN Some("J")
      ELSE IF 2 * middle_count > total THEN Some("H")
      ELSE Some("A")

\* The counting loops of estimate_character_by_position over the black pixels
EstimateCounts(black, width, height) ==
  EstimateRules(
    Cardinality({q \in black : q[2] < height \div 3}),
    Cardinality({q \in black : ~(q[2] < height \div 3) /\ q[2] < (2 * height) \div 3}),
    Cardinality({q \in black : ~(q[2] < (2 * height) \div 3)}),
    Cardinality({q \in black : q[1] < width \div 2}),
    Cardinality({q \in black : ~(q[1] < width \div 2)}))

BlackPixels(cols, width, height) ==
  {q \in (0..(width - 1)) \X (0..(height - 1)) : Px(cols, q[1], q[2]) < 128}

\* estimate_character_by_position
EstimateCharacterByPosition(char_img) ==
  EstimateCounts(BlackPixels(ExpandBands(char_img.bands), char_img.width, char_img.height),
                 char_img.width, char_img.height)

\* One iteration of the loop over CHAR_TEMPLATES.iter() on best_match
BestMatchStep(templates, scoreOf, best_match, i) ==
  IF scoreOf[templates[i].img] < best_match[2]
  THEN <<templates[i].c, scoreOf[templates[i].img]>>
  ELSE best_match

RECURSIVE BestMatchRange(_, _, _, _, _)
\* The iterations lo..hi in the table's iteration order, run by halves;
\* scoreOf is the score of each distinct template image
BestMatchRange(templates, scoreOf, best_match, lo, hi) ==
  IF lo > hi THEN best_match
  ELSE IF lo = hi THEN BestMatchStep(templates, scoreOf, best_match, lo)
  ELSE LET mid == (lo + hi) \div 2
           left == BestMatchRange(templates, scoreOf, best_match, lo, mid)
       IN  IF left[2] <= ScoreMax
           THEN BestMatchRange(templates, scoreOf, left, mid + 1, hi)
           ELSE best_match

\* best_match after the loop, from ('?', f32::MAX)
BestMatch(templates, scoreOf) ==
  BestMatchRange(templates, scoreOf, <<"?", ScoreMax>>, 1, Len(templates))

\* A threshold test with no fallback
ThresholdOnly(best_match, char_img) ==
  IF Accepted(best_match[2]) THEN Some(best_match[1]) ELSE NoneOpt

\* The threshold test that ends identify_character
Threshold(best_match, char_img) ==
  IF Accepted(best_match[2]) THEN Some(best_match[1])
  ELSE EstimateCharacterByPosition(char_img)

\* The scores of the distinct template images against the resized character
ScoresOf(img1_resized, templates) ==
  [im \in {templates[i].img : i \in DOMAIN templates} |->
     DiffSum(img1_resized, ResizeNearest(im, CmpW, CmpH))]

\* identify_character (the scores are bound as a value, so that each is
\* computed once)
IdentifyCharacter(char_img, templates) ==
  CHOOSE r \in {Threshold(BestMatch(templates, scoreOf), char_img) :
                  scoreOf \in {ScoresOf(ResizeNearest(char_img, CmpW, CmpH), templates)}} : TRUE

\* The body of the loop over merged_boundaries: the character pushed for the
\* region (start, end)
PushedChar(img, start, end, templates) ==
  LET c == IdentifyCharacter(CropCols(img, start, end - start), templates)
  IN  IF c.some THEN c.val ELSE "?"

\* The loop over merged_boundaries that assembles `result`
Recognize(img, merged_boundaries, templates) ==
  [i \in 1..Len(merged_boundaries) |->
     PushedChar(img, merged_boundaries[i][1], merged_boundaries[i][2], templates)]

\* A length test that lets any non-empty text through
LongEnoughNonEmpty(result) == Len(result) >= 1

\* The length test of the final validation
LongEnough(result) == Len(result) >= MinChars

\* A character test that lets punctuation through
CharOkGraphic(c) == IsAsciiAlphanumeric(c) \/ c \in {"?", "!"}

\* The character test of the final validation
CharOk(c) == IsAsciiAlphanumeric(c) \/ c = "?"

\* The validation that ends detect_captcha_text
Validate(result) ==
  IF LongEnough(result) /\ \A i \in DOMAIN result : CharOk(result[i])
  THEN Some(result) ELSE NoneOpt

\* detect_captcha_text as a whole
DetectCaptchaText(img, templates) ==
  LET char_boundaries == ScanBoundaries(VProjection(img), img.width)
  IN  IF ~CountOk(char_boundaries) THEN NoneOpt
      ELSE Validate(Recognize(img, MergeBoundaries(char_boundaries), templates))

(***************************************************************************)
(* load_templates                                                          *)
(***************************************************************************)
\* A template directory is [exists, files]: files is the read_dir listing, each
\* file [stem, ext, readable, img] (readable: image::open succeeds).
\* The table is a sequence in iteration order: HashMap::iter's order is arbitrary
\* and fixed while the table is unchanged; `rot` picks one order.
RECURSIVE TableOf(_)
\* The loop over the directory entries, with templates.insert(c, img)
TableOf(files) ==
  IF files = << >> THEN << >>
  ELSE LET f == files[Len(files)]
           rest == TableOf(SubSeq(files, 1, Len(files) - 1))
           kept == SelectSeq(rest, LAMBDA e : e.c # f.stem)
       IN  IF f.ext = "png" /\ Len(f.stem) = 1 /\ f.readable
           THEN Append(kept, [c |-> f.stem, img |-> f.img])
           ELSE rest

Rotate(seq, rot) ==
  IF seq = << >> THEN seq
  ELSE [i \in 1..Len(seq) |-> seq[((i - 1 + rot) % Len(seq)) + 1]]

\* A load that returns what it found in the directory, without the fallback
LoadTemplatesAsFound(dir, rot) ==
  Rotate(IF dir.exists THEN TableOf(dir.files) ELSE << >>, rot)

\* load_templates: the templates of the directory, or the synthesized set when
\* there is none
LoadTemplates(dir, rot) ==
  LET templates == IF dir.exists THEN TableOf(dir.files) ELSE << >>
  IN  IF templates = << >>
      THEN Rotate([i \in DOMAIN FallbackChars |->
                     [c |-> FallbackChars[i], img |-> BlankImage(CmpW, CmpH)]], rot)
      ELSE Rotate(templates, rot)

(***************************************************************************)
(* The inputs of solve_b64                                                 *)
(*                                                                         *)
(* A payload is [prefix, body]: the text before the last comma and the     *)
(* base64 text after it.  What base64 and image decoding and the library   *)
(* stages of preprocess_specific_captcha (resize, threshold, erode,        *)
(* dilate) make of a body is a fixed function of the body; the bodies      *)
(* below are given by the processed image they lead to.                    *)
(***************************************************************************)
\* Rows of the dark pixels of a glyph column, by the shape the position
\* heuristic tells apart
GlyphRows(kind) ==
  CASE kind = "H" -> 27..52
    [] kind = "J" -> 55..75
    [] kind = "8" -> (0..9) \cup (70..79)
    [] kind = "E" -> 10..40
    [] kind = "A" -> (0..9) \cup (30..39) \cup (60..69)
    [] kind = "full" -> 0..(CanonH - 1)
    [] kind = "thin" -> 0..(ProjThreshold - 1)

RECURSIVE GlyphBands(_)
\* Glyphs 8 columns wide, 6 background columns before each
GlyphBands(kinds) ==
  IF kinds = << >> THEN << >>
  ELSE << [w |-> 6, rows |-> {}], [w |-> 8, rows |-> GlyphRows(kinds[1])] >>
         \o GlyphBands(Tail(kinds))

\* A canonical-size bilevel image holding the glyphs, background to the right
GlyphImage(kinds) ==
  LET bands == GlyphBands(kinds)
  IN  MkImage(Append(bands, [w |-> CanonW - BandsWidth(bands), rows |-> {}]), CanonH)

\* The bodies whose bytes decode to an image, with the glyphs of the processed image
ImageBodies == {"g1", "g2", "g3", "g4", "g5", "dark", "two"}

Glyphs(body) ==
  CASE body = "g1" -> << "H", "H", "H" >>
    [] body = "g2" -> << "A", "J", "8", "E" >>
    [] body = "g3" -> << "J", "A", "H" >>
    [] body = "g4" -> << "8", "8", "E", "A", "H" >>
    [] body = "g5" -> << "E", "thin", "A", "J", "H" >>
    [] body = "dark" -> << "full", "A", "full" >>
    [] body = "two" -> << "H", "A" >>

\* "nob64" is not base64 text; "noimg" is base64 of bytes that are no image
Bodies == ImageBodies \cup {"nob64", "noimg"}

\* base64::engine::general_purpose::STANDARD.decode(base64_str).ok()
Base64Decodes(body) == body # "nob64"

\* image::load_from_memory(&img_data).ok()
ImageLoads(body) == body \in ImageBodies

\* captcha_img.split(',').last(): always Some, the text after the last comma
LastSegment(payload) == payload.body

\* simple_hash: DefaultHasher over the segment, printed in hex.  A 64-bit digest
\* is not injective: "g5" and "dark" stand for two texts with one digest.
SimpleHash(s) ==
  CASE s = "g1" -> "a1"
    [] s = "g2" -> "b2"
    [] s = "g3" -> "c3"
    [] s = "g4" -> "d4"
    [] s = "g5" -> "e5"
    [] s = "dark" -> "e5"
    [] s = "two" -> "f6"
    [] s = "nob64" -> "07"
    [] s = "noimg" -> "08"

Payloads ==
  [prefix : {""}, body : Bodies] \cup {[prefix |-> "data:image/png;base64", body |-> "g1"]}

\* What decode and preprocess_specific_captcha make of a decodable body
ProcessedOf(body) == GlyphImage(Glyphs(body))

(***************************************************************************)
(* The environment: the template directory and the cache file              *)
(***************************************************************************)
DirAbsent == [exists |-> FALSE, files |-> << >>]
DirEmpty == [exists |-> TRUE, files |-> << >>]
\* A directory with a template named by a punctuation character and a file
\* whose stem is not one character
DirBang ==
  [exists |-> TRUE,
   files |-> << [stem |-> "!", ext |-> "png", readable |-> TRUE, img |-> BlankImage(CmpW, CmpH)],
                [stem |-> "ab", ext |-> "png", readable |-> TRUE, img |-> BlankImage(CmpW, CmpH)] >>]

\* A directory with a template named by the question mark
DirQuestion ==
  [exists |-> TRUE,
   files |-> << [stem |-> "?", ext |-> "png", readable |-> TRUE, img |-> BlankImage(CmpW, CmpH)] >>]

\* A directory where no file is a usable template: a stem of two characters,
\* a file that is no png, a png that cannot be opened
DirJunk ==
  [exists |-> TRUE,
   files |-> << [stem |-> "ab", ext |-> "png", readable |-> TRUE, img |-> BlankImage(CmpW, CmpH)],
                [stem |-> "x", ext |-> "txt", readable |-> TRUE, img |-> BlankImage(CmpW, CmpH)],
                [stem |-> "q", ext |-> "png", readable |-> FALSE, img |-> BlankImage(CmpW, CmpH)] >>]

\* The number of iteration orders of the template table the model tries
NRot == 2

\* detect_captcha_text of each processed image under each table load_templates
\* can return here, as <<body, directory, iteration order, text>>
DetectTable ==
  {<<b, d, r, DetectCaptchaText(ProcessedOf(b), LoadTemplates(d, r))>> :
     b \in ImageBodies, d \in {DirAbsent, DirEmpty, DirBang, DirJunk}, r \in 0..(NRot - 1)}

DetectOf(b, d, r) == (CHOOSE e \in DetectTable : e[1] = b /\ e[2] = d /\ e[3] = r)[4]

\* A map HashMap<String, String> is a set of <<key, value>> pairs with unique keys
Keys(m) == {e[1] : e \in m}
Get(m, k) == (CHOOSE e \in m : e[1] = k)[2]
\* HashMap::insert
Put(m, k, v) == {e \in m : e[1] # k} \cup {<<k, v>>}

\* The cache file: absent, present but unreadable, text that is no JSON map
\* (an empty or cut file is none), or the JSON of a map
FAbsent == [kind |-> "absent"]
FUnreadable == [kind |-> "unreadable"]
FGarbage == [kind |-> "garbage"]
\* serde_json::to_string of the map
ToJson(m) == [kind |-> "json", entries |-> m]
\* Path::exists
Exists(f) == f.kind # "absent"
\* fs::read_to_string(..) then serde_json::from_str::<HashMap<String, String>>(..)
ParseFile(f) == IF f.kind = "json" THEN Some(f.entries) ELSE NoneOpt

\* Entries an earlier run or another writer left in the file; "08" is the digest
\* of the payload "noimg"
OldEntry(i) ==
  CASE i = 1 -> << "08", << "o", "l", "d" >> >>
    [] i = 2 -> << "91", << "x", "1", "y" >> >>
    [] i = 3 -> << "92", << "x", "2", "y" >> >>
    [] i = 4 -> << "93", << "x", "3", "y" >> >>
    [] i = 5 -> << "94", << "x", "4", "y" >> >>
    [] i = 6 -> << "95", << "x", "5", "y" >> >>
    [] i = 7 -> << "96", << "x", "6", "y" >> >>
    [] i = 8 -> << "97", << "x", "7", "y" >> >>
    [] i = 9 -> << "98", << "x", "8", "y" >> >>
OldMap(n) == {OldEntry(i) : i \in 1..n}
\* A map holding a text that is too short and not alphanumeric
BadMap == {<< "99", << "a", "!" >> >>}

InitialFiles ==
  {FAbsent, FUnreadable, FGarbage, ToJson(BadMap)} \cup {ToJson(OldMap(n)) : n \in {0, 4, 9}}

\* char_boundaries of each processed image, as <<body, char_boundaries>>
RawTable == {<<b, ScanBoundaries(VProjection(ProcessedOf(b)), CanonW)>> : b \in ImageBodies}

RawOf(b) == (CHOOSE e \in RawTable : e[1] = b)[2]

(***************************************************************************)
(* State                                                                   *)
(***************************************************************************)
\* The number of threads that call solve_b64
NThreads == 2
Threads == 1..NThreads
\* The count of reads of the cache file stops here
ReadCap == 3

VARIABLES
  file,          \* captcha_cache.json
  tmplDir,       \* the directory captcha_templates
  CAPTCHA_CACHE, \* the map behind the cache mutex
  INITIALIZED,   \* the flag behind the initialization mutex
  initHolder,    \* the thread holding the INITIALIZED guard, 0 for none
  cacheHolder,   \* the thread holding a CAPTCHA_CACHE guard, 0 for none
  CHAR_TEMPLATES,\* the lazy static table: [loaded, dir, rot]
  pc,            \* where each thread is in solve_b64
  arg,           \* captcha_img of the running call
  img_hash,      \* its digest
  text,          \* the cached solution or the text detect_captcha_text returned
  json,          \* the serialized cache about to be written
  returned,      \* the value the call returns
  steps,         \* the stages the running call has executed
  reads,         \* how often this process has read the cache file
  lastCall,      \* payload and result of the call that returned last in this process
  durable,       \* the entries of the last complete cache file, if any
  detect,        \* a call of detect_captcha_text, statement by statement
  prep,          \* the rotation loop of preprocess_specific_captcha
  login          \* a call of login (lechatphp/mod.rs), statement by statement

mainVars ==
  << file, tmplDir, CAPTCHA_CACHE, INITIALIZED, initHolder, cacheHolder, CHAR_TEMPLATES,
     pc, arg, img_hash, text, json, returned, steps, reads, lastCall, durable >>

vars == << mainVars, detect, prep, login >>

\* No call of detect_captcha_text, no rotation loop under way
NoDetect == [stage |-> "off"]
NoPrep == [stage |-> "off"]
NoLogin == [stage |-> "off"]

NoPayload == [prefix |-> "", body |-> ""]
NotLoaded == [loaded |-> FALSE]

\* The memory of a process that has just started
FreshProcess ==
  /\ CAPTCHA_CACHE = {}
  /\ INITIALIZED = FALSE
  /\ initHolder = 0
  /\ cacheHolder = 0
  /\ CHAR_TEMPLATES = NotLoaded
  /\ pc = [t \in Threads |-> "idle"]
  /\ arg = [t \in Threads |-> NoPayload]
  /\ img_hash = [t \in Threads |-> ""]
  /\ text = [t \in Threads |-> NoneOpt]
  /\ json = [t \in Threads |-> FAbsent]
  /\ returned = [t \in Threads |-> NoneOpt]
  /\ steps = [t \in Threads |-> {}]
  /\ reads = 0
  /\ lastCall = NoneOpt

InitMain(files, dirs) ==
  /\ file \in files
  /\ tmplDir \in dirs
  /\ durable = ParseFile(file)
  /\ FreshProcess
  /\ detect = NoDetect
  /\ prep = NoPrep
  /\ login = NoLogin

(***************************************************************************)
(* solve_b64, statement by statement                                       *)
(***************************************************************************)
Did(t, stage) == steps' = [steps EXCEPT ![t] = @ \cup {stage}]

\* A thread calls solve_b64(p)
Call(t, p) ==
  /\ pc[t] = "idle"
  /\ UNCHANGED << detect, prep, login >>
  /\ pc' = [pc EXCEPT ![t] = "lockInit"]
  /\ arg' = [arg EXCEPT ![t] = p]
  /\ UNCHANGED << file, tmplDir, CAPTCHA_CACHE, INITIALIZED, initHolder, cacheHolder,
                  CHAR_TEMPLATES, img_hash, text, json, returned, steps, reads, lastCall,
                  durable >>

\* let mut initialized = INITIALIZED.lock().unwrap(): the guard lives to the
\* end of the function
AcquireInit(t) ==
  /\ pc[t] = "lockInit"
  /\ UNCHANGED << detect, prep, login >>
  /\ initHolder = 0
  /\ initHolder' = t
  /\ pc' = [pc EXCEPT ![t] = "checkInit"]
  /\ UNCHANGED << file, tmplDir, CAPTCHA_CACHE, INITIALIZED, cacheHolder, CHAR_TEMPLATES,
                  arg, img_hash, text, json, returned, steps, reads, lastCall, durable >>

\* A flag that is set only when the file was loaded
FlagOnSuccess(f) == ParseFile(f).some

\* The value *initialized takes at the end of the `if !*initialized` block
FlagAfterLoad(f) == TRUE

\* if !*initialized { ... }: the file is read when it exists, and the cache is
\* replaced when the text parses
LoadCache(t) ==
  /\ pc[t] = "checkInit"
  /\ UNCHANGED << detect, prep, login >>
  /\ ~INITIALIZED
  /\ ParseFile(file).some => cacheHolder = 0
  /\ reads' = IF Exists(file) /\ reads < ReadCap THEN reads + 1 ELSE reads
  /\ CAPTCHA_CACHE' = IF ParseFile(file).some THEN ParseFile(file).val ELSE CAPTCHA_CACHE
  /\ INITIALIZED' = FlagAfterLoad(file)
  /\ Did(t, "load")
  /\ pc' = [pc EXCEPT ![t] = "lookup"]
  /\ UNCHANGED << file, tmplDir, initHolder, cacheHolder, CHAR_TEMPLATES, arg, img_hash,
                  text, json, returned, lastCall, durable >>

\* The block is skipped once the flag is set
SkipLoad(t) ==
  /\ pc[t] = "checkInit"
  /\ UNCHANGED << detect, prep, login >>
  /\ INITIALIZED
  /\ pc' = [pc EXCEPT ![t] = "lookup"]
  /\ UNCHANGED << file, tmplDir, CAPTCHA_CACHE, INITIALIZED, initHolder, cacheHolder,
                  CHAR_TEMPLATES, arg, img_hash, text, json, returned, steps, reads,
                  lastCall, durable >>

\* if let Some(cached_solution) = CAPTCHA_CACHE.lock().unwrap().get(&img_hash):
\* on a hit the guard lives through the body
LookupHit(t) ==
  /\ pc[t] = "lookup"
  /\ UNCHANGED << detect, prep, login >>
  /\ cacheHolder = 0
  /\ SimpleHash(LastSegment(arg[t])) \in Keys(CAPTCHA_CACHE)
  /\ img_hash' = [img_hash EXCEPT ![t] = SimpleHash(LastSegment(arg[t]))]
  /\ text' = [text EXCEPT ![t] = Some(Get(CAPTCHA_CACHE, SimpleHash(LastSegment(arg[t]))))]
  /\ cacheHolder' = t
  /\ Did(t, "hit")
  /\ pc' = [pc EXCEPT ![t] = "hit"]
  /\ UNCHANGED << file, tmplDir, CAPTCHA_CACHE, INITIALIZED, initHolder, CHAR_TEMPLATES,
                  arg, json, returned, reads, lastCall, durable >>

\* A hit that does not return and goes on to the decode
HitFallsThrough == "decode"

\* Where the call is after the body of the `if let`: at its return
HitGoesTo == "ret"

\* return Some(cached_solution.clone())
ReturnHit(t) ==
  /\ pc[t] = "hit"
  /\ UNCHANGED << detect, prep, login >>
  /\ returned' = [returned EXCEPT ![t] = text[t]]
  /\ cacheHolder' = 0
  /\ pc' = [pc EXCEPT ![t] = HitGoesTo]
  /\ UNCHANGED << file, tmplDir, CAPTCHA_CACHE, INITIALIZED, initHolder, CHAR_TEMPLATES,
                  arg, img_hash, text, json, steps, reads, lastCall, durable >>

\* The lookup finds nothing; the guard is dropped with the statement
LookupMiss(t) ==
  /\ pc[t] = "lookup"
  /\ UNCHANGED << detect, prep, login >>
  /\ cacheHolder = 0
  /\ SimpleHash(LastSegment(arg[t])) \notin Keys(CAPTCHA_CACHE)
  /\ img_hash' = [img_hash EXCEPT ![t] = SimpleHash(LastSegment(arg[t]))]
  /\ pc' = [pc EXCEPT ![t] = "decode"]
  /\ UNCHANGED << file, tmplDir, CAPTCHA_CACHE, INITIALIZED, initHolder, cacheHolder,
                  CHAR_TEMPLATES, arg, text, json, returned, steps, reads, lastCall, durable >>

\* The base64 decode and image::load_from_memory, both ending in `.ok()?`
DecodeOk(t) ==
  /\ pc[t] = "decode"
  /\ UNCHANGED << detect, prep, login >>
  /\ Base64Decodes(LastSegment(arg[t])) /\ ImageLoads(LastSegment(arg[t]))
  /\ Did(t, "decode")
  /\ pc' = [pc EXCEPT ![t] = "preprocess"]
  /\ UNCHANGED << file, tmplDir, CAPTCHA_CACHE, INITIALIZED, initHolder, cacheHolder,
                  CHAR_TEMPLATES, arg, img_hash, text, json, returned, reads, lastCall,
                  durable >>

DecodeFail(t) ==
  /\ pc[t] = "decode"
  /\ UNCHANGED << detect, prep, login >>
  /\ ~(Base64Decodes(LastSegment(arg[t])) /\ ImageLoads(LastSegment(arg[t])))
  /\ Did(t, "decode")
  /\ returned' = [returned EXCEPT ![t] = NoneOpt]
  /\ pc' = [pc EXCEPT ![t] = "ret"]
  /\ UNCHANGED << file, tmplDir, CAPTCHA_CACHE, INITIALIZED, initHolder, cacheHolder,
                  CHAR_TEMPLATES, arg, img_hash, text, json, reads, lastCall, durable >>

\* preprocess_specific_captcha and processed.save("debug_processed.png"), whose
\* outcome is dropped
Preprocess(t) ==
  /\ pc[t] = "preprocess"
  /\ UNCHANGED << detect, prep, login >>
  /\ steps' = [steps EXCEPT ![t] = @ \cup {"preprocess", "debug"}]
  /\ pc' = [pc EXCEPT ![t] = "detect"]
  /\ UNCHANGED << file, tmplDir, CAPTCHA_CACHE, INITIALIZED, initHolder, cacheHolder,
                  CHAR_TEMPLATES, arg, img_hash, text, json, returned, reads, lastCall,
                  durable >>

\* A call that goes on to the training sample without a text
NoTextTrains == "train"

\* Where the call is when detect_captcha_text returned None: at `None`, the
\* last expression of solve_b64
NoTextGoesTo == "ret"

\* if let Some(text) = detect_captcha_text(&processed) { ... } None: where the
\* call goes with the text detect_captcha_text returned
AfterDetect(t, r) ==
  /\ text' = [text EXCEPT ![t] = r]
  /\ returned' = [returned EXCEPT ![t] = NoneOpt]
  /\ pc' = [pc EXCEPT ![t] = IF r.some THEN "insert" ELSE NoTextGoesTo]

\* detect_captcha_text returns at the count check: no character is cropped and
\* CHAR_TEMPLATES is not touched
DetectRejected(t) ==
  /\ pc[t] = "detect"
  /\ UNCHANGED << detect, prep, login >>
  /\ ~CountOk(RawOf(LastSegment(arg[t])))
  /\ AfterDetect(t, NoneOpt)
  /\ Did(t, "detect")
  /\ UNCHANGED << file, tmplDir, CAPTCHA_CACHE, INITIALIZED, initHolder, cacheHolder,
                  CHAR_TEMPLATES, arg, img_hash, json, reads, lastCall, durable >>

\* The first identify_character of the process runs load_templates, which
\* creates the directory when it is missing; the table has some iteration order
DetectFirst(t) ==
  /\ pc[t] = "detect"
  /\ UNCHANGED << detect, prep, login >>
  /\ CountOk(RawOf(LastSegment(arg[t])))
  /\ ~CHAR_TEMPLATES.loaded
  /\ \E rot \in 0..(NRot - 1) :
       /\ CHAR_TEMPLATES' = [loaded |-> TRUE, dir |-> tmplDir, rot |-> rot]
       /\ AfterDetect(t, DetectOf(LastSegment(arg[t]), tmplDir, rot))
  /\ tmplDir' = IF tmplDir.exists THEN tmplDir ELSE DirEmpty
  /\ steps' = [steps EXCEPT ![t] = @ \cup {"detect", "chars"}]
  /\ UNCHANGED << file, CAPTCHA_CACHE, INITIALIZED, initHolder, cacheHolder,
                  arg, img_hash, json, reads, lastCall, durable >>

\* Later calls read the table as it was loaded
DetectLoaded(t) ==
  /\ pc[t] = "detect"
  /\ UNCHANGED << detect, prep, login >>
  /\ CountOk(RawOf(LastSegment(arg[t])))
  /\ CHAR_TEMPLATES.loaded
  /\ AfterDetect(t, DetectOf(LastSegment(arg[t]), CHAR_TEMPLATES.dir, CHAR_TEMPLATES.rot))
  /\ steps' = [steps EXCEPT ![t] = @ \cup {"detect", "chars"}]
  /\ UNCHANGED << file, tmplDir, CAPTCHA_CACHE, INITIALIZED, initHolder, cacheHolder,
                  CHAR_TEMPLATES, arg, img_hash, json, reads, lastCall, durable >>

\* An insert that leaves the map as it was
CacheKept(m, k, v) == m

\* The map after CAPTCHA_CACHE.lock().unwrap().insert(img_hash, text.clone())
CacheAfterInsert(m, k, v) == Put(m, k, v)

Insert(t) ==
  /\ pc[t] = "insert"
  /\ UNCHANGED << detect, prep, login >>
  /\ cacheHolder = 0
  /\ CAPTCHA_CACHE' = CacheAfterInsert(CAPTCHA_CACHE, img_hash[t], text[t].val)
  /\ Did(t, "insert")
  /\ pc' = [pc EXCEPT ![t] = "lencheck"]
  /\ UNCHANGED << file, tmplDir, INITIALIZED, initHolder, cacheHolder, CHAR_TEMPLATES,
                  arg, img_hash, text, json, returned, reads, lastCall, durable >>

\* A test that is off by one entry
FlushDueLate(m) == Cardinality(m) % FlushEvery = 1

\* The test of `if CAPTCHA_CACHE.lock().unwrap().len() % 5 == 0`
FlushDue(m) == Cardinality(m) % FlushEvery = 0

\* A guard bound to a name, which lives on into the block
HolderKept(t) == t

\* The holder of the cache mutex after that test: the guard is a temporary of
\* the condition, dropped before the block
HolderAfterLenCheck(t) == 0

LenCheck(t) ==
  /\ pc[t] = "lencheck"
  /\ UNCHANGED << detect, prep, login >>
  /\ cacheHolder = 0
  /\ cacheHolder' = HolderAfterLenCheck(t)
  /\ pc' = [pc EXCEPT ![t] = IF FlushDue(CAPTCHA_CACHE) THEN "serialize" ELSE "train"]
  /\ UNCHANGED << file, tmplDir, CAPTCHA_CACHE, INITIALIZED, initHolder, CHAR_TEMPLATES,
                  arg, img_hash, text, json, returned, steps, reads, lastCall, durable >>

\* if let Ok(json) = serde_json::to_string(&*CAPTCHA_CACHE.lock().unwrap()):
\* the guard lives through the body, that is through fs::write
Serialize(t) ==
  /\ pc[t] = "serialize"
  /\ UNCHANGED << detect, prep, login >>
  /\ cacheHolder = 0
  /\ cacheHolder' = t
  /\ json' = [json EXCEPT ![t] = ToJson(CAPTCHA_CACHE)]
  /\ pc' = [pc EXCEPT ![t] = "write"]
  /\ UNCHANGED << file, tmplDir, CAPTCHA_CACHE, INITIALIZED, initHolder, CHAR_TEMPLATES,
                  arg, img_hash, text, returned, steps, reads, lastCall, durable >>

\* let _ = fs::write("captcha_cache.json", json): the file cannot be opened
\* for writing, and the error is dropped
WriteOpenFail(t) ==
  /\ pc[t] = "write"
  /\ UNCHANGED << detect, prep, login >>
  /\ cacheHolder' = 0
  /\ Did(t, "flushfail")
  /\ pc' = [pc EXCEPT ![t] = "train"]
  /\ UNCHANGED << file, tmplDir, CAPTCHA_CACHE, INITIALIZED, initHolder, CHAR_TEMPLATES,
                  arg, img_hash, text, json, returned, reads, lastCall, durable >>

\* The content of the file once fs::write has opened it: File::create truncates
FileAfterOpen(f) == FGarbage

\* fs::write opens the file, which truncates it, before it writes the text
WriteTruncate(t) ==
  /\ pc[t] = "write"
  /\ UNCHANGED << detect, prep, login >>
  /\ file' = FileAfterOpen(file)
  /\ pc' = [pc EXCEPT ![t] = "writing"]
  /\ UNCHANGED << tmplDir, CAPTCHA_CACHE, INITIALIZED, initHolder, cacheHolder,
                  CHAR_TEMPLATES, arg, img_hash, text, json, returned, steps, reads,
                  lastCall, durable >>

\* write_all completes
WriteData(t) ==
  /\ pc[t] = "writing"
  /\ UNCHANGED << detect, prep, login >>
  /\ file' = json[t]
  /\ durable' = ParseFile(json[t])
  /\ cacheHolder' = 0
  /\ Did(t, "flush")
  /\ pc' = [pc EXCEPT ![t] = "train"]
  /\ UNCHANGED << tmplDir, CAPTCHA_CACHE, INITIALIZED, initHolder, CHAR_TEMPLATES,
                  arg, img_hash, text, json, returned, reads, lastCall >>

\* write_all fails (the disk is full): the file stays cut, the error is dropped
WriteDataFail(t) ==
  /\ pc[t] = "writing"
  /\ UNCHANGED << detect, prep, login >>
  /\ cacheHolder' = 0
  /\ Did(t, "flushfail")
  /\ pc' = [pc EXCEPT ![t] = "train"]
  /\ UNCHANGED << file, tmplDir, CAPTCHA_CACHE, INITIALIZED, initHolder, CHAR_TEMPLATES,
                  arg, img_hash, text, json, returned, reads, lastCall, durable >>

\* fs::create_dir_all("captcha_training") and the save of the training sample,
\* both outcomes dropped; return Some(text)
Train(t) ==
  /\ pc[t] = "train"
  /\ UNCHANGED << detect, prep, login >>
  /\ Did(t, "train")
  /\ returned' = [returned EXCEPT ![t] = text[t]]
  /\ pc' = [pc EXCEPT ![t] = "ret"]
  /\ UNCHANGED << file, tmplDir, CAPTCHA_CACHE, INITIALIZED, initHolder, cacheHolder,
                  CHAR_TEMPLATES, arg, img_hash, text, json, reads, lastCall, durable >>

\* The function returns: its locals are dropped, the INITIALIZED guard with them
Return(t) ==
  /\ pc[t] = "ret"
  /\ UNCHANGED << detect, prep, login >>
  /\ initHolder' = 0
  /\ lastCall' = Some([payload |-> arg[t], result |-> returned[t]])
  /\ pc' = [pc EXCEPT ![t] = "idle"]
  /\ arg' = [arg EXCEPT ![t] = NoPayload]
  /\ img_hash' = [img_hash EXCEPT ![t] = ""]
  /\ text' = [text EXCEPT ![t] = NoneOpt]
  /\ json' = [json EXCEPT ![t] = FAbsent]
  /\ returned' = [returned EXCEPT ![t] = NoneOpt]
  /\ steps' = [steps EXCEPT ![t] = {}]
  /\ UNCHANGED << file, tmplDir, CAPTCHA_CACHE, INITIALIZED, cacheHolder, CHAR_TEMPLATES,
                  reads, durable >>

\* The process stops at any point and is started again: its memory is lost, the
\* files stay as they are
Crash ==
  /\ \E t \in Threads : pc[t] # "idle"
  /\ UNCHANGED << detect, prep, login >>
  /\ CAPTCHA_CACHE' = {}
  /\ INITIALIZED' = FALSE
  /\ initHolder' = 0
  /\ cacheHolder' = 0
  /\ CHAR_TEMPLATES' = NotLoaded
  /\ pc' = [t \in Threads |-> "idle"]
  /\ arg' = [t \in Threads |-> NoPayload]
  /\ img_hash' = [t \in Threads |-> ""]
  /\ text' = [t \in Threads |-> NoneOpt]
  /\ json' = [t \in Threads |-> FAbsent]
  /\ returned' = [t \in Threads |-> NoneOpt]
  /\ steps' = [t \in Threads |-> {}]
  /\ reads' = 0
  /\ lastCall' = NoneOpt
  /\ UNCHANGED << file, tmplDir, durable >>

\* One step of thread t, which calls with payloads of P
Step(t, P) ==
  \/ \E p \in P : Call(t, p)
  \/ AcquireInit(t)
  \/ LoadCache(t)
  \/ SkipLoad(t)
  \/ LookupHit(t)
  \/ ReturnHit(t)
  \/ LookupMiss(t)
  \/ DecodeOk(t)
  \/ DecodeFail(t)
  \/ Preprocess(t)
  \/ DetectRejected(t)
  \/ DetectFirst(t)
  \/ DetectLoaded(t)
  \/ Insert(t)
  \/ LenCheck(t)
  \/ Serialize(t)
  \/ WriteOpenFail(t)
  \/ WriteTruncate(t)
  \/ WriteData(t)
  \/ WriteDataFail(t)
  \/ Train(t)
  \/ Return(t)

(***************************************************************************)
(* detect_captcha_text, statement by statement, on a family of processed   *)
(* images: n character runs, the first `narrow` gaps between them at the   *)
(* merge distance and the others one column wider, the last run ending     *)
(* inside the image or running to its last column.                         *)
(***************************************************************************)
\* The number of character runs an image of the family holds at most
MaxRuns == 9
\* The width of a run, and the gaps: one that merges and one that does not
RunW == MinCharWidth + MinGap
NarrowGap == MinGap
WideGap == MinGap + 1

\* The glyph of run i: "mix" is one fully dark run before runs shaped like H
KindOfRun(kinds, i) ==
  CASE kinds = "H" -> "H"
    [] kinds = "full" -> "full"
    [] kinds = "mix" -> IF i = 1 THEN "full" ELSE "H"

GapBefore(l, i) == IF i > 1 /\ i - 1 <= l.narrow THEN NarrowGap ELSE WideGap

RunBands(l) ==
  [j \in 1..(2 * l.n) |->
     IF j % 2 = 1
     THEN [w |-> GapBefore(l, (j + 1) \div 2), rows |-> {}]
     ELSE [w |-> RunW, rows |-> GlyphRows(KindOfRun(l.kinds, j \div 2))]]

\* The image of a layout: background after the last run, or the last run
\* stretched to the last column
LayoutImage(l) ==
  LET bands == RunBands(l)
      rest == CanonW - BandsWidth(bands)
  IN  IF l.last
      THEN MkImage(Append(bands, [w |-> rest,
                                  rows |-> GlyphRows(KindOfRun(l.kinds, l.n))]), CanonH)
      ELSE MkImage(Append(bands, [w |-> rest, rows |-> {}]), CanonH)

Layouts ==
  {l \in [n : 0..MaxRuns, narrow : 0..MaxRuns, kinds : {"H", "full", "mix"}, last : BOOLEAN] :
     /\ l.narrow \in {0, 1, l.n - 1}
     /\ l.narrow < l.n \/ l.narrow = 0
     /\ l.last => l.n >= 1}

\* The template tables the calls of the family run with
DetectEnvs ==
  {[dir |-> DirAbsent, rot |-> r] : r \in 0..(NRot - 1)}
    \cup {[dir |-> DirBang, rot |-> 0], [dir |-> DirQuestion, rot |-> 0]}

DetectStart(l, e) ==
  [stage |-> "project", img |-> LayoutImage(l), env |-> e, v_projection |-> << >>,
   char_boundaries |-> << >>, merged_boundaries |-> << >>, result |-> << >>,
   out |-> NoneOpt, solved |-> NoneOpt]

\* The loop that fills v_projection
DProject ==
  /\ detect.stage = "project"
  /\ detect' = [detect EXCEPT !.stage = "scan", !.v_projection = VProjection(detect.img)]
  /\ UNCHANGED << mainVars, prep, login >>

\* The loop that finds char_boundaries
DScan ==
  /\ detect.stage = "scan"
  /\ detect' = [detect EXCEPT
                  !.stage = "count",
                  !.char_boundaries = ScanBoundaries(detect.v_projection, detect.img.width)]
  /\ UNCHANGED << mainVars, prep, login >>

\* if char_boundaries.len() < 3 || char_boundaries.len() > 8 { return None; }
DCountReject ==
  /\ detect.stage = "count"
  /\ ~CountOk(detect.char_boundaries)
  /\ detect' = [detect EXCEPT !.stage = "done", !.out = NoneOpt]
  /\ UNCHANGED << mainVars, prep, login >>

DCountPass ==
  /\ detect.stage = "count"
  /\ CountOk(detect.char_boundaries)
  /\ detect' = [detect EXCEPT !.stage = "merge"]
  /\ UNCHANGED << mainVars, prep, login >>

\* The loop that fills merged_boundaries, and the push after it
DMerge ==
  /\ detect.stage = "merge"
  /\ detect' = [detect EXCEPT
                  !.stage = "loop",
                  !.merged_boundaries = MergeBoundaries(detect.char_boundaries)]
  /\ UNCHANGED << mainVars, prep, login >>

\* One iteration of the loop over merged_boundaries
DPush ==
  /\ detect.stage = "loop"
  /\ Len(detect.result) < Len(detect.merged_boundaries)
  /\ LET b == detect.merged_boundaries[Len(detect.result) + 1]
     IN  detect' = [detect EXCEPT
                      !.result = Append(@, PushedChar(detect.img, b[1], b[2],
                                                       LoadTemplates(detect.env.dir,
                                                                     detect.env.rot)))]
  /\ UNCHANGED << mainVars, prep, login >>

\* The validation after the loop
DValidate ==
  /\ detect.stage = "loop"
  /\ Len(detect.result) = Len(detect.merged_boundaries)
  /\ detect' = [detect EXCEPT !.stage = "done", !.out = Validate(detect.result)]
  /\ UNCHANGED << mainVars, prep, login >>

\* solve_b64 after detect_captcha_text: Some(text) is returned as it is, None
\* makes the call return None
DSolve ==
  /\ detect.stage = "done"
  /\ detect' = [detect EXCEPT !.stage = "solved", !.solved = detect.out]
  /\ UNCHANGED << mainVars, prep, login >>

InitDetect ==
  /\ file = FAbsent
  /\ tmplDir = DirAbsent
  /\ durable = NoneOpt
  /\ FreshProcess
  /\ prep = NoPrep
  /\ login = NoLogin
  /\ \E l \in Layouts, e \in DetectEnvs : detect = DetectStart(l, e)

NextDetect ==
  \/ DProject
  \/ DScan
  \/ DCountReject
  \/ DCountPass
  \/ DMerge
  \/ DPush
  \/ DValidate
  \/ DSolve

SpecDetect == InitDetect /\ [][NextDetect]_vars

(***************************************************************************)
(* SpecMerge: the merge loop of detect_captcha_text alone, on the lists of *)
(* raw boundaries that pass the count check: every sequence of runs, 3 and *)
(* 5 columns wide in turn, each 1, 3, 4 or 6 columns after the one before. *)
(***************************************************************************)
\* The number of raw boundaries of a list at most
MaxRaw == 5

\* The width of run i
WidthOfRun(i) == MinCharWidth + 2 * (i % 2)

RECURSIVE RawOfGaps(_)
\* The list of a sequence of gaps: gaps[i] is the gap before run i
RawOfGaps(gaps) ==
  IF gaps = << >> THEN << >>
  ELSE LET front == RawOfGaps(SubSeq(gaps, 1, Len(gaps) - 1))
           start == (IF front = << >> THEN 0 ELSE front[Len(front)][2]) + gaps[Len(gaps)]
       IN  Append(front, << start, start + WidthOfRun(Len(gaps)) >>)

RawLists ==
  UNION {{RawOfGaps(gaps) : gaps \in [1..n -> {1, MinGap, MinGap + 1, 6}]} :
         n \in MinChars..MaxRaw}

\* The state of the function when the merge loop starts
MergeStart(char_boundaries) ==
  [stage |-> "merge", char_boundaries |-> char_boundaries, merged_boundaries |-> << >>]

InitMerge ==
  /\ file = FAbsent
  /\ tmplDir = DirAbsent
  /\ durable = NoneOpt
  /\ FreshProcess
  /\ prep = NoPrep
  /\ login = NoLogin
  /\ \E bs \in RawLists : detect = MergeStart(bs)

NextMerge == DMerge

SpecMerge == InitMerge /\ [][NextMerge]_vars

(***************************************************************************)
(* The rotation loop of preprocess_specific_captcha, on small gray images  *)
(* given pixel by pixel: [width, height, rows], rows[y + 1][x + 1] the     *)
(* value of pixel (x, y).                                                  *)
(***************************************************************************)
\* The size of the images the loop is run on
GridW == 3
GridH == 2

\* The candidate angles of the loop
Angles == << -20, -15, -10, -5, 0, 5, 10, 15, 20 >>

SizedImages ==
  {[width |-> GridW, height |-> GridH, rows |-> r] :
     r \in [1..GridH -> [1..GridW -> {0, 255}]]}

\* imageops::rotate90: pixel (x, y) goes to (height - 1 - y, x)
Rotate90(img) ==
  [width |-> img.height, height |-> img.width,
   rows |-> [y \in 1..img.width |-> [x \in 1..img.height |->
               img.rows[img.height - (x - 1)][y]]]]

\* The histogram of evaluate_captcha_clarity
Histogram(img) ==
  [i \in 0..255 |->
     Cardinality({q \in (1..img.height) \X (1..img.width) : img.rows[q[1]][q[2]] = i})]

\* evaluate_captcha_clarity: the variance of the pixel values, here times
\* total_pixels cubed, which keeps it a whole number; mean is the mean times
\* total_pixels
EvaluateCaptchaClarity(img) ==
  LET hist == Histogram(img)
      total_pixels == img.width * img.height
      mean == SumRange([i \in 0..255 |-> i * hist[i]], 0, 255)
  IN  SumRange([i \in 0..255 |-> (i * total_pixels - mean) * (i * total_pixels - mean) * hist[i]],
               0, 255)

\* let mut best_img = sized.clone(); let mut best_score = evaluate_captcha_clarity(&sized)
PrepStart(sized) ==
  [stage |-> "loop", sized |-> sized, best_img |-> sized,
   best_score |-> EvaluateCaptchaClarity(sized), candidates |-> << >>]

\* The transform the loop body applies for an angle, in degrees: rotate90,
\* whatever the angle
AppliedDegrees(angle) == 90

\* A test that lets a candidate of equal score replace the best
NotWorse(score, best_score) == score >= best_score

\* if score > best_score
Better(score, best_score) == score > best_score

\* One iteration of `for _angle in [...]`: the candidate is scored and kept as
\* best_img when its score is greater
PRotate ==
  /\ prep.stage = "loop"
  /\ Len(prep.candidates) < Len(Angles)
  /\ LET angle == Angles[Len(prep.candidates) + 1]
         rotated == Rotate90(prep.sized)
         score == EvaluateCaptchaClarity(rotated)
     IN  prep' = [prep EXCEPT
                    !.candidates = Append(@, [angle |-> angle,
                                              degrees |-> AppliedDegrees(angle),
                                              img |-> rotated, score |-> score]),
                    !.best_img = IF Better(score, prep.best_score) THEN rotated ELSE @,
                    !.best_score = IF Better(score, prep.best_score) THEN score ELSE @]
  /\ UNCHANGED << mainVars, detect, login >>

\* The loop ends; best_img goes on to adaptive_threshold
PThreshold ==
  /\ prep.stage = "loop"
  /\ Len(prep.candidates) = Len(Angles)
  /\ prep' = [prep EXCEPT !.stage = "threshold"]
  /\ UNCHANGED << mainVars, detect, login >>

InitPre ==
  /\ file = FAbsent
  /\ tmplDir = DirAbsent
  /\ durable = NoneOpt
  /\ FreshProcess
  /\ detect = NoDetect
  /\ login = NoLogin
  /\ \E sized \in SizedImages : prep = PrepStart(sized)

NextPre == PRotate \/ PThreshold

SpecPre == InitPre /\ [][NextPre]_vars

(***************************************************************************)
(* remove_noise, on small gray images given pixel by pixel.                *)
(***************************************************************************)
\* The number of pixels of an image that differ from its background at most
MaxSpecks == 3

\* The images remove_noise is run on: GridW columns and one row more than
\* GridH, so that there is a pixel off the border; a background shade with at
\* most MaxSpecks pixels of another shade, which is on the other side of 127
\* or on the same side
NoiseImages ==
  {[width |-> GridW, height |-> GridH + 1,
    rows |-> [y \in 1..(GridH + 1) |-> [x \in 1..GridW |->
                IF << x, y >> \in specks THEN shades[2] ELSE shades[1]]]] :
     specks \in {q \in SUBSET ((1..GridW) \X (1..(GridH + 1))) : Cardinality(q) <= MaxSpecks},
     shades \in {<< 0, 255 >>, << 255, 0 >>, << 128, 255 >>, << 255, 128 >>,
                 << 0, 127 >>, << 127, 0 >>}}

\* img.get_pixel(x, y).0[0]
Luma(img, x, y) == img.rows[y + 1][x + 1]

\* The count `neighbors` of pixel (x, y): the pixels around it, inside the
\* image, on the same side of 127
Neighbors(img, x, y) ==
  Cardinality({d \in {-1, 0, 1} \X {-1, 0, 1} :
                 /\ d # << 0, 0 >>
                 /\ x + d[1] >= 0 /\ x + d[1] < img.width
                 /\ y + d[2] >= 0 /\ y + d[2] < img.height
                 /\ (Luma(img, x + d[1], y + d[2]) > 127) = (Luma(img, x, y) > 127)})

\* Loops that run over every pixel
VisitedAll(img, x, y) == TRUE

\* The pixels the loops `for y in 1..(height - 1)`, `for x in 1..(width - 1)` visit
Visited(img, x, y) ==
  /\ 1 <= y /\ y < img.height - 1
  /\ 1 <= x /\ x < img.width - 1

\* remove_noise: the counts are taken on img, the pixels are put in the clone
RemoveNoise(img) ==
  [img EXCEPT !.rows =
     [y \in 1..img.height |-> [x \in 1..img.width |->
        IF Visited(img, x - 1, y - 1) /\ Neighbors(img, x - 1, y - 1) < 2
        THEN 255 - Luma(img, x - 1, y - 1)
        ELSE Luma(img, x - 1, y - 1)]]]

\* let mut output = img.clone()
NoiseStart(img) == [stage |-> "noise", img |-> img, output |-> img]

\* The loops of remove_noise, and its return
PRemoveNoise ==
  /\ prep.stage = "noise"
  /\ prep' = [prep EXCEPT !.stage = "denoised", !.output = RemoveNoise(prep.img)]
  /\ UNCHANGED << mainVars, detect, login >>

InitNoise ==
  /\ file = FAbsent
  /\ tmplDir = DirAbsent
  /\ durable = NoneOpt
  /\ FreshProcess
  /\ detect = NoDetect
  /\ login = NoLogin
  /\ \E img \in NoiseImages : prep = NoiseStart(img)

NextNoise == PRemoveNoise

SpecNoise == InitNoise /\ [][NextNoise]_vars

(***************************************************************************)
(* The writes of solve_b64 whose outcome is dropped, when they fail: the   *)
(* save of debug_processed.png (line 55), the saves of debug_char_<i>.png  *)
(* in detect_captcha_text (line 253), create_dir_all and the save of the   *)
(* training sample (lines 70-71). fs::write is WriteOpenFail and           *)
(* WriteDataFail above.                                                    *)
(***************************************************************************)
\* let _ = processed.save("debug_processed.png") fails
DebugSaveFail(t) ==
  /\ pc[t] = "preprocess"
  /\ UNCHANGED << detect, prep, login >>
  /\ steps' = [steps EXCEPT ![t] = @ \cup {"preprocess", "debugfail"}]
  /\ pc' = [pc EXCEPT ![t] = "detect"]
  /\ UNCHANGED << file, tmplDir, CAPTCHA_CACHE, INITIALIZED, initHolder, cacheHolder,
                  CHAR_TEMPLATES, arg, img_hash, text, json, returned, reads, lastCall,
                  durable >>

\* let _ = char_img.save(format!("debug_char_{}.png", i)) fails for the
\* characters of the image: the character is identified all the same
CropSaveFail(t) ==
  /\ pc[t] = "detect"
  /\ UNCHANGED << detect, prep, login >>
  /\ CountOk(RawOf(LastSegment(arg[t])))
  /\ \E rot \in 0..(NRot - 1) :
       LET table == IF CHAR_TEMPLATES.loaded
                    THEN CHAR_TEMPLATES
                    ELSE [loaded |-> TRUE, dir |-> tmplDir, rot |-> rot]
       IN /\ CHAR_TEMPLATES' = table
          /\ AfterDetect(t, DetectOf(LastSegment(arg[t]), table.dir, table.rot))
  /\ tmplDir' = IF CHAR_TEMPLATES.loaded \/ tmplDir.exists THEN tmplDir ELSE DirEmpty
  /\ steps' = [steps EXCEPT ![t] = @ \cup {"detect", "chars", "cropfail"}]
  /\ UNCHANGED << file, CAPTCHA_CACHE, INITIALIZED, initHolder, cacheHolder,
                  arg, img_hash, json, reads, lastCall, durable >>

\* A save whose error is passed on with `?`
NothingAfterFailedSave(txt) == NoneOpt

\* What solve_b64 returns after `let _ = img.save(...)` failed: Some(text)
ReturnedAfterFailedSave(txt) == txt

\* create_dir_all fails, and the save into the missing directory with it, or
\* the save alone fails
TrainFail(t) ==
  /\ pc[t] = "train"
  /\ UNCHANGED << detect, prep, login >>
  /\ \E failed \in {{"trainfail"}, {"traindirfail", "trainfail"}} :
       steps' = [steps EXCEPT ![t] = @ \cup failed]
  /\ returned' = [returned EXCEPT ![t] = ReturnedAfterFailedSave(text[t])]
  /\ pc' = [pc EXCEPT ![t] = "ret"]
  /\ UNCHANGED << file, tmplDir, CAPTCHA_CACHE, INITIALIZED, initHolder, cacheHolder,
                  CHAR_TEMPLATES, arg, img_hash, text, json, reads, lastCall, durable >>

(***************************************************************************)
(* SpecIO: one caller after another, where every write of the call can     *)
(* fail, over every state of the template directory.                       *)
(***************************************************************************)
\* The payloads of SpecIO: two images with a text, one that the count check
\* rejects, one whose text fails the validation under DirBang, and text that
\* is no base64
IOPayloads == {p \in Payloads : p.prefix = "" /\ p.body \in {"g1", "g2", "dark", "two", "nob64"}}

InitIO == InitMain({FAbsent, ToJson(OldMap(4))}, {DirAbsent, DirEmpty, DirJunk, DirBang})

NextIO ==
  \/ Step(1, IOPayloads)
  \/ DebugSaveFail(1)
  \/ CropSaveFail(1)
  \/ TrainFail(1)

SpecIO == InitIO /\ [][NextIO]_vars

(***************************************************************************)
(* Spec: one caller after another (solve_b64 holds the INITIALIZED guard   *)
(* from its first statement to its return, so calls never overlap), every  *)
(* payload, every initial cache file, crash and restart.                   *)
(***************************************************************************)
Init == InitMain(InitialFiles, {DirAbsent, DirBang})

Next == Step(1, Payloads) \/ Crash

Spec == Init /\ [][Next]_vars

(***************************************************************************)
(* SpecConc: the threads call solve_b64 at any time, in any interleaving.  *)
(* A thread that can take a step takes it in the end, and a thread waiting *)
(* for the INITIALIZED mutex gets it in the end when it is released again  *)
(* and again.                                                              *)
(***************************************************************************)
\* The payloads a thread calls with: two images for the odd threads, another
\* image and text that is no base64 for the even ones
ConcPayloads(t) ==
  {p \in Payloads :
     /\ p.prefix = ""
     /\ p.body \in (IF t % 2 = 1 THEN {"g1", "two"} ELSE {"g2", "nob64"})}

InitConc == InitMain({ToJson(OldMap(4))}, {DirAbsent})

NextConc == \E t \in Threads : Step(t, ConcPayloads(t))

\* The steps of a call that has the INITIALIZED guard
Proceed(t) ==
  \/ LoadCache(t)
  \/ SkipLoad(t)
  \/ LookupHit(t)
  \/ ReturnHit(t)
  \/ LookupMiss(t)
  \/ DecodeOk(t)
  \/ DecodeFail(t)
  \/ Preprocess(t)
  \/ DetectRejected(t)
  \/ DetectFirst(t)
  \/ DetectLoaded(t)
  \/ Insert(t)
  \/ LenCheck(t)
  \/ Serialize(t)
  \/ WriteOpenFail(t)
  \/ WriteTruncate(t)
  \/ WriteData(t)
  \/ WriteDataFail(t)
  \/ Train(t)
  \/ Return(t)

SpecConc ==
  /\ InitConc
  /\ [][NextConc]_vars
  /\ \A t \in Threads : WF_vars(Proceed(t)) /\ SF_vars(AcquireInit(t))

(***************************************************************************)
(* login (lechatphp/mod.rs), statement by statement.  A response body is   *)
(* [errs, class, nc, view]: the error texts it contains, the class of its  *)
(* body element ("" for none), whether it has an input named nc, and its   *)
(* frame named view: absent, with a session in its src, or without one.    *)
(* The result is "Ok", the name of a LoginErr, or "panic".                 *)
(***************************************************************************)
\* The number of waitroom refreshes of one login at most
MaxRefresh == 2

\* The error texts resp.contains is called with, by the names of their constants
ErrTexts == {"CAPTCHA_USED_ERR", "CAPTCHA_WG_ERR", "REG_ERR", "NICKNAME_ERR", "KICKED_ERR"}

Pages ==
  [errs : SUBSET ErrTexts, class : {"", "error", "failednotice"}, nc : BOOLEAN,
   view : {"absent", "session", "nosession"}]

\* The if / else if chain over resp.contains(...)
ErrOf(errs) ==
  IF "CAPTCHA_USED_ERR" \in errs THEN "CaptchaUsedErr"
  ELSE IF "CAPTCHA_WG_ERR" \in errs THEN "CaptchaWgErr"
  ELSE IF "REG_ERR" \in errs THEN "RegErr"
  ELSE IF "NICKNAME_ERR" \in errs THEN "NicknameErr"
  ELSE "KickedErr"

\* login is called: nothing is received yet
LoginStart ==
  [stage |-> "get", resp |-> NoneOpt, doc |-> NoneOpt, refresh_header |-> "",
   refreshes |-> 0, reposted |-> FALSE, out |-> NoneOpt]

\* return of login with result r
LoginReturns(r) == login' = [login EXCEPT !.stage = "done", !.out = Some(r)]

\* client.get(&login_url).send()?, the status test, resp.text()?, and the
\* captcha form of the page, whose unwraps and panic! stop the call
LGet ==
  /\ login.stage = "get"
  /\ \E o \in {"Reqwest", "ServerDownErr", "panic", "page"} :
       IF o = "page" THEN login' = [login EXCEPT !.stage = "post"] ELSE LoginReturns(o)
  /\ UNCHANGED << mainVars, detect, prep >>

\* client.post(&login_url).form(&params).send()?, the match on the status, and
\* the refresh header of the response
LPost ==
  /\ login.stage = "post"
  /\ \/ \E o \in {"Reqwest", "ServerDownErr", "ServerDown500Err"} : LoginReturns(o)
     \/ \E h \in {"", "url", "nourl"} :
          login' = [login EXCEPT !.stage = "wait", !.refresh_header = h]
  /\ UNCHANGED << mainVars, detect, prep >>

\* One iteration of `while refresh_header != ""`: the URL is taken from the
\* header (unwrap), the page is fetched again, its status is not looked at
LWait ==
  /\ login.stage = "wait"
  /\ login.refresh_header # ""
  /\ IF login.refresh_header = "nourl" THEN LoginReturns("panic")
     ELSE \/ LoginReturns("Reqwest")
          \/ \E h \in (IF login.refreshes + 1 < MaxRefresh THEN {"", "url", "nourl"} ELSE {""}) :
               login' = [login EXCEPT !.refresh_header = h, !.refreshes = @ + 1]
  /\ UNCHANGED << mainVars, detect, prep >>

\* let mut resp = resp.text()?
LText ==
  /\ login.stage = "wait"
  /\ login.refresh_header = ""
  /\ \/ LoginReturns("Reqwest")
     \/ \E page \in Pages : login' = [login EXCEPT !.stage = "classify", !.resp = Some(page)]
  /\ UNCHANGED << mainVars, detect, prep >>

\* The chain over the error texts, then let mut doc = Document::from(resp.as_str())
LClassify ==
  /\ login.stage = "classify"
  /\ IF login.resp.val.errs # {} THEN LoginReturns(ErrOf(login.resp.val.errs))
     ELSE login' = [login EXCEPT !.stage = "body", !.doc = login.resp]
  /\ UNCHANGED << mainVars, detect, prep >>

\* The tests on the class of the body element
LBody ==
  /\ login.stage = "body"
  /\ IF login.doc.val.class = "error" THEN LoginReturns("UnknownErr")
     ELSE IF login.doc.val.class = "failednotice"
          THEN login' = [login EXCEPT !.stage = "repost"]
     ELSE login' = [login EXCEPT !.stage = "view"]
  /\ UNCHANGED << mainVars, detect, prep >>

\* The failednotice branch: nc is read (unwrap), the form is posted again, and
\* resp and doc become the text of the answer; no test follows
LRepost ==
  /\ login.stage = "repost"
  /\ IF ~login.doc.val.nc THEN LoginReturns("panic")
     ELSE \/ LoginReturns("Reqwest")
          \/ \E page \in Pages :
               login' = [login EXCEPT !.stage = "view", !.resp = Some(page),
                                      !.doc = Some(page), !.reposted = TRUE]
  /\ UNCHANGED << mainVars, detect, prep >>

\* The frame named view: without it dump_login_err.html is written and the
\* call returns UnknownErr; its src and the session in it are unwrapped
LView ==
  /\ login.stage = "view"
  /\ LoginReturns(CASE login.doc.val.view = "absent" -> "UnknownErr"
                    [] login.doc.val.view = "nosession" -> "panic"
                    [] login.doc.val.view = "session" -> "Ok")
  /\ UNCHANGED << mainVars, detect, prep >>

InitLogin ==
  /\ file = FAbsent
  /\ tmplDir = DirAbsent
  /\ durable = NoneOpt
  /\ FreshProcess
  /\ detect = NoDetect
  /\ prep = NoPrep
  /\ login = LoginStart

NextLogin ==
  \/ LGet
  \/ LPost
  \/ LWait
  \/ LText
  \/ LClassify
  \/ LBody
  \/ LRepost
  \/ LView

SpecLogin == InitLogin /\ [][NextLogin]_vars

(***************************************************************************)
(* Properties                                                              *)
(***************************************************************************)
\* C8: when the regions left after merging number fewer than 3 or more than
\* 8, the call returns nothing.
C8_RegionCountBoundary ==
  detect.stage = "solved" =>
    LET regions == Len(MergeBoundaries(detect.char_boundaries))
    IN  (regions < MinChars \/ regions > MaxChars) => ~detect.solved.some

\* C8 happens: an image passes the count check with 3 to 8 raw regions, the
\* merge leaves fewer than 3, they are recognised, and nothing is returned
C8_Witness ==
  /\ detect.stage = "solved"
  /\ CountOk(detect.char_boundaries)
  /\ detect.merged_boundaries # << >>
  /\ Len(detect.merged_boundaries) < MinChars
  /\ Len(detect.result) = Len(detect.merged_boundaries)
  /\ ~detect.solved.some

\* C9: the call returns the assembled text exactly when the text has at least
\* 3 characters and each is ASCII alphanumeric or '?'; otherwise it returns
\* nothing.
C9_TextValidation ==
  detect.stage = "solved" =>
    /\ detect.solved.some <=>
         /\ Len(detect.result) >= 3
         /\ \A i \in DOMAIN detect.result :
              IsAsciiAlphanumeric(detect.result[i]) \/ detect.result[i] = "?"
    /\ detect.solved.some => detect.solved.val = detect.result

\* C9 happens: a text of 3 or more characters holding the label of a template
\* file named "!" is assembled and nothing is returned
C9_Witness ==
  /\ detect.stage = "solved"
  /\ Len(detect.result) >= 3
  /\ \E i \in DOMAIN detect.result : detect.result[i] = "!"
  /\ \E i \in DOMAIN detect.result : detect.result[i] = "H"
  /\ ~detect.solved.some

\* The pipeline stages of solve_b64 after the lookup
PipelineStages == {"decode", "preprocess", "debug", "detect", "chars"}

\* The call that is returning was made with the payload of the call before it
SecondOfTwo(t) ==
  /\ pc[t] = "ret"
  /\ lastCall.some
  /\ lastCall.val.payload = arg[t]

\* C1 as claimed: the second of two successive calls with one payload returns
\* what the first returned and is answered from the cache without any
\* pipeline stage, whatever the first returned.
C1_AlwaysFromCache ==
  \A t \in Threads :
    SecondOfTwo(t) =>
      /\ returned[t] = lastCall.val.result
      /\ "hit" \in steps[t]
      /\ steps[t] \cap PipelineStages = {}

\* C1: the second of two successive calls with one payload returns what the
\* first returned; when the first returned a text the second is answered
\* from the cache without any pipeline stage, and when the first returned
\* nothing the second runs the decode again.
C1_Idempotent ==
  \A t \in Threads :
    SecondOfTwo(t) =>
      /\ returned[t] = lastCall.val.result
      /\ lastCall.val.result.some =>
           "hit" \in steps[t] /\ steps[t] \cap PipelineStages = {}
      /\ ~lastCall.val.result.some =>
           "hit" \notin steps[t] /\ "decode" \in steps[t]

\* C1 happens: a payload whose text was detected and inserted before is
\* solved again and answered by a hit
C1_Witness ==
  /\ SecondOfTwo(1)
  /\ arg[1].body = "g2"
  /\ returned[1].some
  /\ "hit" \in steps[1]
  /\ file = FAbsent

\* A text that passes the validation of detect_captcha_text
ValidText(s) ==
  /\ Len(s) >= 3
  /\ \A i \in DOMAIN s : IsAsciiAlphanumeric(s[i]) \/ s[i] = "?"

\* C2: every text in the in-memory cache has at least 3 characters, each
\* ASCII alphanumeric or '?'.
C2_CachedTextsValid == \A e \in CAPTCHA_CACHE : ValidText(e[2])

\* The post-insert size is a multiple of 5
SizeDue == Cardinality(CAPTCHA_CACHE) % 5 = 0

\* C3 as claimed: after every insert that brings the cache to a multiple of 5
\* entries the file holds the whole cache.
C3_EveryDueInsertOnFile ==
  \A t \in Threads :
    pc[t] = "train" /\ SizeDue => file = ToJson(CAPTCHA_CACHE)

\* After an insert, a write was attempted exactly when the size is a multiple
\* of 5, and a write that succeeded left the whole cache in the file
C3_Attempt ==
  \A t \in Threads :
    pc[t] = "train" =>
      /\ "insert" \in steps[t]
      /\ ("flush" \in steps[t] \/ "flushfail" \in steps[t]) <=> SizeDue
      /\ "flush" \in steps[t] => file = ToJson(CAPTCHA_CACHE)

\* The file changes only inside the write of an insert that brought the cache
\* to a multiple of 5 entries
C3_FileStep ==
  file' # file =>
    \E t \in Threads :
      /\ pc[t] \in {"write", "writing"}
      /\ "insert" \in steps[t]
      /\ SizeDue
      /\ file' \in {FGarbage, ToJson(CAPTCHA_CACHE)}

\* C3: a write of the cache file is attempted exactly at the successful
\* inserts whose post-insert size is a multiple of 5, the file changes at no
\* other time, and a write that succeeds stores the whole in-memory cache.
C3_FlushCadence == [][C3_FileStep /\ C3_Attempt']_vars

\* C3 happens: five distinct texts were inserted into an empty cache and the
\* fifth insert wrote all five to the file
C3_Witness ==
  /\ pc[1] = "train"
  /\ "flush" \in steps[1]
  /\ Keys(CAPTCHA_CACHE) = {"a1", "b2", "c3", "d4", "e5"}
  /\ file = ToJson(CAPTCHA_CACHE)

\* C4: once the cache file was a complete mapping it stays one, and it keeps
\* the entries of the last complete write, wherever the process stops.
C4_CrashSafe ==
  durable.some => file.kind = "json" /\ durable.val \subseteq file.entries

\* C6: a call that hits returns the text the cache holds for its digest and
\* runs no stage but the first-use load and the lookup; the steps of the hit
\* leave the cache, the cache file and the template directory as they were.
C6_HitStep ==
  \A t \in Threads :
    /\ (pc'[t] = "ret" /\ "hit" \in steps'[t]) =>
         /\ returned'[t].some
         /\ << SimpleHash(LastSegment(arg'[t])), returned'[t].val >> \in CAPTCHA_CACHE'
         /\ steps'[t] \subseteq {"load", "hit"}
    /\ "hit" \in steps'[t] =>
         /\ CAPTCHA_CACHE' = CAPTCHA_CACHE
         /\ file' = file
         /\ tmplDir' = tmplDir
         /\ CHAR_TEMPLATES' = CHAR_TEMPLATES

C6_HitBypasses == [][C6_HitStep]_vars

\* C6 happens: a payload that is no image is answered from an entry the
\* cache file held for its digest
C6_Witness ==
  /\ pc[1] = "ret"
  /\ "hit" \in steps[1]
  /\ arg[1].body = "noimg"
  /\ returned[1] = Some(<< "o", "l", "d" >>)

\* C7: the cache file is read at most once per process and only by the
\* first call; past the initialization block the flag is set, whatever the
\* file was; a file that is absent or does not parse leaves the cache empty
\* and the call goes on to the lookup.
C7_ReadOnce ==
  /\ reads <= 1
  /\ \A t \in Threads :
       /\ pc[t] \notin {"idle", "lockInit", "checkInit"} => INITIALIZED
       /\ "load" \in steps[t] => lastCall = NoneOpt
       /\ (pc[t] = "lookup" /\ "load" \in steps[t] /\ ~ParseFile(file).some) =>
            CAPTCHA_CACHE = {}

\* C7 happens: a later call of a process whose first call found a file that
\* did not parse skips the load
C7_Witness ==
  /\ pc[1] = "lookup"
  /\ "load" \notin steps[1]
  /\ lastCall.some
  /\ reads = 1
  /\ durable = NoneOpt
  /\ INITIALIZED

\* The statements at which a thread locks CAPTCHA_CACHE
LocksCache(t) ==
  \/ pc[t] \in {"lookup", "insert", "lencheck", "serialize"}
  \/ pc[t] = "checkInit" /\ ~INITIALIZED /\ ParseFile(file).some

\* No thread locks a mutex it holds, CAPTCHA_CACHE is locked only by the
\* holder of INITIALIZED and INITIALIZED never by a holder of CAPTCHA_CACHE,
\* and the cache file was read at most once
C5_Locks ==
  /\ \A t \in Threads :
       /\ pc[t] = "lockInit" => initHolder # t /\ cacheHolder # t
       /\ LocksCache(t) => cacheHolder # t /\ initHolder = t
  /\ cacheHolder # 0 => initHolder = cacheHolder
  /\ reads <= 1

\* C5: in every interleaving of the threads' calls no thread locks a mutex it
\* holds, the two mutexes are taken in one order, the cache file is loaded by
\* at most one call, and every call returns.
C5_ConcurrentSafe ==
  /\ []C5_Locks
  /\ \A t \in Threads : (pc[t] = "lockInit") ~> (pc[t] = "idle")

\* C5 happens: one thread writes the cache file, holding both mutexes, while
\* another waits for INITIALIZED, after the file was loaded by an earlier call
C5_Witness ==
  /\ pc[1] = "writing"
  /\ pc[2] = "lockInit"
  /\ initHolder = 1
  /\ cacheHolder = 1
  /\ reads = 1
  /\ lastCall.some

\* C10: each scored candidate is the canonical image rotated by its own
\* angle: the rotation applied is the angle of the candidate, and the
\* candidate for angle 0 is the canonical image itself.
C10_AngleSensitive ==
  \A k \in DOMAIN prep.candidates :
    /\ prep.candidates[k].degrees = prep.candidates[k].angle
    /\ prep.candidates[k].angle = 0 => prep.candidates[k].img = prep.sized

\* C11: the writes of a call are best effort. Each step of a call that saves
\* or flushes something (debug_processed.png, the cache file, the training
\* sample and its directory) moves on to the same statement whether the write
\* succeeded or failed, and leaves the in-memory cache and the recognized text
\* as they were; the call that recognized a text returns that text, which is in
\* the in-memory cache, whatever writes failed.
C11_WriteStep ==
  \A t \in Threads :
    /\ (pc[t] \in {"preprocess", "write", "writing", "train"} /\ pc'[t] # pc[t]) =>
         /\ CAPTCHA_CACHE' = CAPTCHA_CACHE
         /\ text'[t] = text[t]
         /\ pc[t] = "preprocess" => pc'[t] = "detect"
         /\ pc[t] = "write" => pc'[t] \in {"writing", "train"}
         /\ pc[t] = "writing" => pc'[t] = "train"
         /\ pc[t] = "train" => pc'[t] = "ret"
    /\ (pc[t] = "detect" /\ "chars" \in steps'[t]) =>
         text'[t] = DetectOf(LastSegment(arg[t]), CHAR_TEMPLATES'.dir, CHAR_TEMPLATES'.rot)
    /\ (pc[t] = "train" /\ pc'[t] = "ret") =>
         /\ text[t].some
         /\ returned'[t] = text[t]
         /\ << img_hash[t], text[t].val >> \in CAPTCHA_CACHE'

C11_BestEffortWrites == [][C11_WriteStep]_vars

\* C11 happens: a call in which the debug image, a character crop, the cache
\* flush, the training directory and the training sample all failed is about
\* to return its text, which is in the cache
C11_Witness ==
  \E t \in Threads :
    /\ pc[t] = "ret"
    /\ {"debugfail", "cropfail", "flushfail", "traindirfail", "trainfail"} \subseteq steps[t]
    /\ returned[t].some
    /\ << img_hash[t], returned[t].val >> \in CAPTCHA_CACHE

\* The maximal runs of in-character columns of a projection that are at least
\* MinCharWidth wide, as half-open ranges <<start, end>>
MaximalRuns(proj, width) ==
  LET in(x) == proj[x] > ProjThreshold
      starts == {x \in 0..(width - 1) : in(x) /\ (x = 0 \/ ~in(x - 1))}
      endOf(s) == CHOOSE e \in (s + 1)..width :
                    /\ \A x \in s..(e - 1) : in(x)
                    /\ e = width \/ ~in(e)
  IN  {<<s, endOf(s)>> : s \in {x \in starts : endOf(x) - x >= MinCharWidth}}

\* C12: the raw boundaries are exactly the maximal runs of in-character
\* columns that are at least three columns wide, each as the half-open range
\* that covers the whole run, in left-to-right order; a run that extends to the
\* last column of the image is reported like any other.
C12_RawBoundaries ==
  detect.stage = "count" =>
    /\ {detect.char_boundaries[i] : i \in DOMAIN detect.char_boundaries}
         = MaximalRuns(detect.v_projection, detect.img.width)
    /\ \A i, j \in DOMAIN detect.char_boundaries :
         i < j => detect.char_boundaries[i][1] < detect.char_boundaries[j][1]

\* The 62 characters 0-9, A-Z, a-z
Alphanumerics ==
  {"0","1","2","3","4","5","6","7","8","9"}
  \cup {"A","B","C","D","E","F","G","H","I","J","K","L","M",
        "N","O","P","Q","R","S","T","U","V","W","X","Y","Z"}
  \cup {"a","b","c","d","e","f","g","h","i","j","k","l","m",
        "n","o","p","q","r","s","t","u","v","w","x","y","z"}

\* The directory as load_templates found it holds no usable template
NoUsableTemplate(dir) ==
  \/ ~dir.exists
  \/ \A i \in DOMAIN dir.files :
       ~(dir.files[i].ext = "png" /\ Len(dir.files[i].stem) = 1 /\ dir.files[i].readable)

\* What C13 says of a table that was loaded from directory dir
FilledTable(templates, dir) ==
  /\ Len(templates) > 0
  /\ NoUsableTemplate(dir) =>
       /\ Len(templates) = 62
       /\ {templates[i].c : i \in DOMAIN templates} = Alphanumerics

\* C13: the step that initializes the template table leaves a table that is
\* not empty and that, when the directory was missing or held no usable
\* template, has one entry for each of the 62 alphanumeric characters; and no
\* step modifies the table after its initialization, so that it is never empty.
C13_TableStep ==
  /\ (~CHAR_TEMPLATES.loaded /\ CHAR_TEMPLATES'.loaded) =>
       FilledTable(LoadTemplates(CHAR_TEMPLATES'.dir, CHAR_TEMPLATES'.rot),
                   CHAR_TEMPLATES'.dir)
  /\ CHAR_TEMPLATES.loaded => CHAR_TEMPLATES' = CHAR_TEMPLATES

C13_TableNeverEmpty == [][C13_TableStep]_vars

\* C13 happens: the table was initialized from a directory that holds files but
\* no usable template, an earlier call has returned, and a later call is at its
\* recognition with the table
C13_Witness ==
  /\ CHAR_TEMPLATES.loaded
  /\ CHAR_TEMPLATES.dir = DirJunk
  /\ lastCall.some
  /\ pc[1] = "detect"

\* Every pixel of the image is on the same side of the mid-level split
UniformPolarity(img) ==
  \/ \A y \in 1..img.height, x \in 1..img.width : img.rows[y][x] > 127
  \/ \A y \in 1..img.height, x \in 1..img.width : img.rows[y][x] <= 127

\* C14: remove_noise returns an image equal to its input when every pixel of
\* the input is on the same side of 127, and it never changes a pixel of the
\* border of the image.
C14_NoiseStable ==
  prep.stage = "denoised" =>
    /\ prep.output.width = prep.img.width /\ prep.output.height = prep.img.height
    /\ UniformPolarity(prep.img) => prep.output = prep.img
    /\ \A y \in 1..prep.img.height, x \in 1..prep.img.width :
         (y \in {1, prep.img.height} \/ x \in {1, prep.img.width}) =>
           prep.output.rows[y][x] = prep.img.rows[y][x]

\* C14 happens: remove_noise has run on an image of two shades of light, with
\* a pixel off the border that is darker than all the pixels around it
C14_Witness ==
  /\ prep.stage = "denoised"
  /\ UniformPolarity(prep.img)
  /\ prep.img.rows[2][2] = 128
  /\ \A y \in 1..prep.img.height, x \in 1..prep.img.width :
       << x, y >> # << 2, 2 >> => prep.img.rows[y][x] = 255

\* C15: while a call that missed decodes, preprocesses, segments and
\* recognizes its image it holds no mutex: neither the INITIALIZED guard nor
\* the cache guard is held across those stages.
C15_NoLockWhileProcessing ==
  \A t \in Threads :
    pc[t] \in {"decode", "preprocess", "detect"} => initHolder # t /\ cacheHolder # t

\* The stages that change the cache or write the cache file or a training
\* sample
Effects == {"insert", "flush", "flushfail", "train", "trainfail", "traindirfail"}

\* C16: a call that returns nothing (the decode failed, the segment count is
\* implausible, or the text failed the validation) has run no insert, no flush
\* and no training write; the in-memory cache changes only in the first-use
\* load and in the insert, and the cache file changes only in a call that has
\* inserted, so that a failed call leaves both as they were, apart from the load.
C16_FailStep ==
  /\ \A t \in Threads :
       (pc[t] # "ret" /\ pc'[t] = "ret" /\ ~returned'[t].some) =>
         steps'[t] \cap Effects = {}
  /\ CAPTCHA_CACHE' # CAPTCHA_CACHE =>
       \E t \in Threads : steps'[t] \ steps[t] \in {{"load"}, {"insert"}}
  /\ file' # file => \E t \in Threads : "insert" \in steps[t]

C16_FailedSolveLeavesState == [][C16_FailStep]_vars

\* C16 happens: a call that loaded the cache file and whose text failed the
\* validation is about to return nothing
C16_Witness ==
  \E t \in Threads :
    /\ pc[t] = "ret"
    /\ ~returned[t].some
    /\ {"load", "chars"} \subseteq steps[t]
    /\ CAPTCHA_CACHE = OldMap(4)
    /\ file = ToJson(OldMap(4))

\* C17: the raw boundaries are merged first and the count check is applied to
\* the merged list: an image whose merged boundaries number 3 to 8 is not
\* rejected for its count and goes on to the recognition of each merged
\* boundary, however many raw boundaries it has, and an image whose merged
\* boundaries number less than 3 or more than 8 gives no text.
C17_CountAfterMerge ==
  detect.stage = "done" =>
    IF CountOk(MergeBoundaries(detect.char_boundaries))
    THEN /\ detect.merged_boundaries = MergeBoundaries(detect.char_boundaries)
         /\ Len(detect.result) = Len(detect.merged_boundaries)
    ELSE detect.out = NoneOpt

\* The merged boundaries that hold raw boundary k
HoldersOf(raw, merged, k) ==
  {i \in DOMAIN merged : merged[i][1] <= raw[k][1] /\ raw[k][2] <= merged[i][2]}

\* What C18 says of the merged list of a raw list
MergePostcondition(raw, merged) ==
  /\ \A i \in DOMAIN merged : merged[i][1] < merged[i][2]
  /\ \A i \in 1..(Len(merged) - 1) :
       /\ merged[i][2] <= merged[i + 1][1]
       /\ merged[i + 1][1] - merged[i][2] > 3
  /\ \A i \in DOMAIN merged :
       /\ \E k \in DOMAIN raw : raw[k][1] = merged[i][1]
       /\ \E k \in DOMAIN raw : raw[k][2] = merged[i][2]
  /\ \A k \in DOMAIN raw : Cardinality(HoldersOf(raw, merged, k)) = 1
  /\ \A k \in 1..(Len(raw) - 1) :
       (HoldersOf(raw, merged, k) = HoldersOf(raw, merged, k + 1))
         <=> (raw[k + 1][1] - raw[k][2] <= 3)

\* C18: after the merge the merged boundaries are ordered and pairwise
\* disjoint, every raw boundary lies in exactly one merged boundary, two
\* consecutive raw boundaries lie in the same merged boundary exactly when the
\* gap between them (next start minus previous end) is at most 3, and
\* consecutive merged boundaries are more than 3 columns apart.
C18_MergePostcondition ==
  detect.stage = "loop" => MergePostcondition(detect.char_boundaries, detect.merged_boundaries)

\* C18 happens: five raw boundaries, of which two are exactly 3 columns apart
\* and two exactly 4, were merged into three
C18_Witness ==
  /\ detect.stage = "loop"
  /\ Len(detect.char_boundaries) = 5
  /\ Len(detect.merged_boundaries) = 3
  /\ \E k \in 1..4 : detect.char_boundaries[k + 1][1] - detect.char_boundaries[k][2] = 3
  /\ \E k \in 1..4 : detect.char_boundaries[k + 1][1] - detect.char_boundaries[k][2] = 4

\* The characters the fallback rules can give
HeuristicChars == {"8", "E", "C", "J", "H", "A"}

\* Character c is a label identify_character may give for char_img: the label
\* of a template with the lowest score when that score is below 0.4, a
\* character of the fallback rules otherwise
LabelFor(char_img, templates, c) ==
  \A scoreOf \in {ScoresOf(ResizeNearest(char_img, CmpW, CmpH), templates)} :
    LET low == CHOOSE v \in {scoreOf[im] : im \in DOMAIN scoreOf} :
                 \A im \in DOMAIN scoreOf : v <= scoreOf[im]
    IN  IF 10 * low < 4 * 255 * CmpW * CmpH
        THEN \E i \in DOMAIN templates :
               templates[i].c = c /\ scoreOf[templates[i].img] = low
        ELSE c \in HeuristicChars

\* The iteration of the recognition loop takes the character of the next
\* merged boundary from LabelFor
LabelledStep ==
  (detect.stage = "loop" /\ Len(detect'.result) = Len(detect.result) + 1) =>
    LabelFor(CropCols(detect.img,
                      detect.merged_boundaries[Len(detect'.result)][1],
                      detect.merged_boundaries[Len(detect'.result)][2]
                        - detect.merged_boundaries[Len(detect'.result)][1]),
             LoadTemplates(detect.env.dir, detect.env.rot),
             detect'.result[Len(detect'.result)])

\* C19 as stated: every region of the pipeline gets the label of the
\* lowest-scoring template when that score is below 0.4 and a character of
\* the fallback rules otherwise, and the marker '?' never appears in the text.
C19_NeverUnknown ==
  [][LabelledStep /\ \A i \in DOMAIN detect'.result : detect'.result[i] # "?"]_vars

\* C19, amended: every region of the pipeline gets the label of the
\* lowest-scoring template when that score is below 0.4 and a character of
\* the fallback rules otherwise; identify_character never returns None for a
\* region, so '?' appears in the text only as the label of a template, that
\* is when the directory holds a template named '?'.
C19_AlwaysLabelled ==
  [][/\ LabelledStep
     /\ \A i \in DOMAIN detect'.result :
          detect'.result[i] = "?" =>
            \E k \in DOMAIN detect.env.dir.files : detect.env.dir.files[k].stem = "?"]_vars

\* C19 happens: the recognition loop has labelled one region by a template,
\* the template named '?', and the next by the fallback rules
C19_Witness ==
  /\ detect.stage = "loop"
  /\ detect.env.dir = DirQuestion
  /\ Len(detect.result) >= 2
  /\ detect.result[1] = "?"
  /\ detect.result[2] \in HeuristicChars

\* With the synthesized set no template scores below 0.4 for char_img, and c
\* is the character the fallback rules give for it
HeuristicOnly(char_img, templates, c) ==
  /\ \A scoreOf \in {ScoresOf(ResizeNearest(char_img, CmpW, CmpH), templates)} :
       \A im \in DOMAIN scoreOf : ~(10 * scoreOf[im] < 4 * 255 * CmpW * CmpH)
  /\ c = EstimateCharacterByPosition(char_img).val

\* C20: when the template directory is missing, so that the table is the
\* synthesized set of blank templates, no template scores below the threshold
\* for any region of the pipeline and every region is labelled by the fallback
\* rules, whatever the iteration order of the table.
C20_BlankNeverWins ==
  [][(/\ detect.stage = "loop"
      /\ Len(detect'.result) = Len(detect.result) + 1
      /\ ~detect.env.dir.exists) =>
       HeuristicOnly(CropCols(detect.img,
                              detect.merged_boundaries[Len(detect'.result)][1],
                              detect.merged_boundaries[Len(detect'.result)][2]
                                - detect.merged_boundaries[Len(detect'.result)][1]),
                     LoadTemplates(detect.env.dir, detect.env.rot),
                     detect'.result[Len(detect'.result)])]_vars

\* C21: the image that the rotation loop hands to the thresholding has the
\* size of the resized image: it is the resized image or a candidate of the
\* same size; an iteration replaces the best image only when the score of its
\* candidate is strictly greater than the best score, so that on equal scores
\* the unrotated resized image is kept.
C21_SelectStep ==
  /\ prep'.stage \in {"loop", "threshold"} =>
       /\ prep'.best_img.width = prep'.sized.width
       /\ prep'.best_img.height = prep'.sized.height
       /\ \/ prep'.best_img = prep'.sized
          \/ \E k \in DOMAIN prep'.candidates : prep'.candidates[k].img = prep'.best_img
  /\ (prep.stage = "loop" /\ Len(prep'.candidates) = Len(prep.candidates) + 1) =>
       /\ prep'.best_img # prep.best_img =>
            prep'.candidates[Len(prep'.candidates)].score > prep.best_score
       /\ prep'.candidates[Len(prep'.candidates)].score <= prep.best_score =>
            prep'.best_img = prep.best_img /\ prep'.best_score = prep.best_score

C21_CanonicalSizeKept == [][C21_SelectStep]_vars

\* C21 happens: the loop has scored its nine candidates of an image that is
\* not of one shade, each scored like the resized image, and hands the resized
\* image to the thresholding
C21_Witness ==
  /\ prep.stage = "threshold"
  /\ Len(prep.candidates) = Len(Angles)
  /\ prep.best_score > 0
  /\ \A k \in DOMAIN prep.candidates : prep.candidates[k].score = prep.best_score
  /\ prep.candidates[1].img # prep.sized
  /\ prep.best_img = prep.sized

\* The error of the first text of the precedence CaptchaUsed, CaptchaWg, Reg,
\* Nickname, Kicked that a body contains
FirstError(errs) ==
  CASE "CAPTCHA_USED_ERR" \in errs -> "CaptchaUsedErr"
    [] "CAPTCHA_USED_ERR" \notin errs /\ "CAPTCHA_WG_ERR" \in errs -> "CaptchaWgErr"
    [] {"CAPTCHA_USED_ERR", "CAPTCHA_WG_ERR"} \cap errs = {} /\ "REG_ERR" \in errs -> "RegErr"
    [] {"CAPTCHA_USED_ERR", "CAPTCHA_WG_ERR", "REG_ERR"} \cap errs = {}
         /\ "NICKNAME_ERR" \in errs -> "NicknameErr"
    [] errs = {"KICKED_ERR"} -> "KickedErr"

\* C22: when login has returned after it read the text of a response, it
\* returned Ok only if the last text it read contains none of the five error
\* texts and has a frame named view, and if that text contains an error text
\* it returned the error of the first one in the precedence CaptchaUsed,
\* CaptchaWg, Reg, Nickname, Kicked; the last text is that of the answer to
\* the second post when the first answer was a failednotice page.
C22_LoginClassification ==
  (login.stage = "done" /\ login.resp.some /\ login.out.val \notin {"Reqwest", "panic"}) =>
    /\ login.out.val = "Ok" =>
         login.resp.val.errs = {} /\ login.resp.val.view # "absent"
    /\ login.resp.val.errs # {} => login.out.val = FirstError(login.resp.val.errs)

====
